---- MODULE Spec2Model ----
(***************************************************************************)
(* BinarySearchTree of src/race.py: a sorted collection kept as a binary   *)
(* search tree whose nodes are Python lists, [] for an empty node and      *)
(* [left_child, right_child, value] or [left_child, right_child, value,    *)
(* sort_key] for a non-empty one.  A node is modelled as the tuple of the  *)
(* same shape; the in-place list mutation of insert is modelled by         *)
(* rebuilding the path from the root to the mutated slot.                  *)
(***************************************************************************)
EXTENDS Integers, Sequences, FiniteSets, Bags

VARIABLES
    _sort_key,  \* self._sort_key, fixed by the constructor
    _root,      \* self._root
    _len,       \* self._len
    inserted,   \* ghost: the values passed to insert, in call order
    op,         \* ghost: the public method called last
    arg,        \* ghost: its argument (NoArg when it takes none)
    raised,     \* ghost: the exception it ended with ("none" on a return)
    result,     \* ghost: the value it returned (NoValue when none)
    yielded,    \* ghost: the values a values() generator yielded, run dry
    prevRoot,   \* ghost: self._root when the last call began
    prevLen     \* ghost: self._len when the last call began

vars == <<_sort_key, _root, _len, inserted, op, arg, raised, result, yielded,
          prevRoot, prevLen>>

\* ---------------------------------------------------------------- bounds
MaxLen == 4     \* at most this many insert calls
MaxVal == 4     \* the values inserted are 0..MaxVal

Values == 0..MaxVal
Keys == 0..MaxVal
NoArg == -1
NoValue == -1

\* ------------------------------------------------------ node representation
_LEFT == 0
_RIGHT == 1
_VALUE == 2
_SORT_KEY == -1

EmptyNode == <<>>

\* Python list indexing node[i]: zero-based, negative indices from the end.
At(node, i) == IF i < 0 THEN node[Len(node) + 1 + i] ELSE node[i + 1]

\* The list node with the element at index i replaced (i >= 0).
WithAt(node, i, x) == [node EXCEPT ![i + 1] = x]

\* The constructor's sort_key argument: None, or a key function.  The key
\* function of the model maps two values to each sort key.
SortKeyArgs == {"None", "half"}

KeyOf(fn, value) == IF fn = "None" THEN value ELSE value \div 2

\* Outcomes of `sort_key is value`.  Without a key function sort_key is the
\* very object value.  With one, an unequal key is another object, and for an
\* equal key the identity of the two objects is up to the interpreter.
IsSame(fn, sort_key, value) ==
    IF fn = "None" THEN {TRUE}
    ELSE IF sort_key # value THEN {FALSE}
    ELSE {TRUE, FALSE}

\* ------------------------------------------------------------------ insert
\* The node list stored into the empty slot.
NewNode(value, sort_key, same) ==
    IF same THEN <<EmptyNode, EmptyNode, value>>
    ELSE <<EmptyNode, EmptyNode, value, sort_key>>

\* The side taken at a non-empty node on the way down.
\* (InsertSideGT, InsertSideLE: the comparison reversed, and made non-strict.)
InsertSideGT(sort_key, node) ==
    IF sort_key > At(node, _SORT_KEY) THEN _LEFT ELSE _RIGHT

InsertSideLE(sort_key, node) ==
    IF sort_key <= At(node, _SORT_KEY) THEN _LEFT ELSE _RIGHT

InsertSide(sort_key, node) ==
    IF sort_key < At(node, _SORT_KEY) THEN _LEFT ELSE _RIGHT

\* Walk down from node to an empty node and put the value there.
RECURSIVE InsertWalk(_, _, _, _)
InsertWalk(node, value, sort_key, same) ==
    IF node # EmptyNode
    THEN LET side == InsertSide(sort_key, node)
         IN  WithAt(node, side, InsertWalk(At(node, side), value, sort_key, same))
    ELSE NewNode(value, sort_key, same)

\* ------------------------------------------------------------ _extreme_node
\* (ExtremeStep: an `if` in place of the `while`.)
ExtremeStep(node, side) ==
    IF At(node, side) # EmptyNode THEN At(node, side) ELSE node

RECURSIVE ExtremeWalk(_, _)
ExtremeWalk(node, side) ==
    IF At(node, side) # EmptyNode THEN ExtremeWalk(At(node, side), side)
    ELSE node

\* ------------------------------------------------------------------- _find
\* The node the loop returns, or the empty node when the loop runs out and
\* KeyError is raised.
\* (FindWalkGE: `elif sort_key >= node_key`.)
RECURSIVE FindWalkGE(_, _)
FindWalkGE(node, sort_key) ==
    IF node # EmptyNode
    THEN LET node_key == At(node, _SORT_KEY)
         IN  IF sort_key < node_key THEN FindWalkGE(At(node, _LEFT), sort_key)
             ELSE IF sort_key >= node_key
                  THEN FindWalkGE(At(node, _RIGHT), sort_key)
             ELSE node
    ELSE EmptyNode

RECURSIVE FindWalk(_, _)
FindWalk(node, sort_key) ==
    IF node # EmptyNode
    THEN LET node_key == At(node, _SORT_KEY)
         IN  IF sort_key < node_key THEN FindWalk(At(node, _LEFT), sort_key)
             ELSE IF sort_key > node_key THEN FindWalk(At(node, _RIGHT), sort_key)
             ELSE node
    ELSE EmptyNode

\* ------------------------------------------------------------------- _iter
\* The generator run to exhaustion: out is the sequence yielded so far.
RECURSIVE IterLoop(_, _, _, _, _)
IterLoop(stack, node, pre, post, out) ==
    IF stack # <<>> \/ node # EmptyNode
    THEN IF node # EmptyNode
         THEN IterLoop(Append(stack, node), At(node, pre), pre, post, out)
         ELSE LET top == stack[Len(stack)]
              IN  IterLoop(SubSeq(stack, 1, Len(stack) - 1), At(top, post),
                           pre, post, Append(out, At(top, _VALUE)))
    ELSE out

_iter(root, pre, post) == IterLoop(<<>>, root, pre, post, <<>>)

\* values(reverse): the generator's output.  (valuesSwapped: the two calls of
\* _iter exchanged.)
valuesSwapped(root, reverse) ==
    IF reverse THEN _iter(root, _LEFT, _RIGHT) ELSE _iter(root, _RIGHT, _LEFT)

valuesOf(root, reverse) ==
    IF reverse THEN _iter(root, _RIGHT, _LEFT) ELSE _iter(root, _LEFT, _RIGHT)

\* ------------------------------------------------------- attribute lookup
\* The attributes the class body of BinarySearchTree binds.
ClassAttrs ==
    {"__init__", "insert", "minimum", "maximum", "find", "pop_min", "pop_max",
     "pop", "values", "__iter__", "__len__", "__nonzero__", "__repr__",
     "__str__", "pprint", "_extreme_node", "_find", "_iter", "_pprint"}

\* ---------------------------------------------------------------- actions
Init ==
    /\ _sort_key \in SortKeyArgs
    /\ _root = EmptyNode
    /\ _len = 0
    /\ inserted = <<>>
    /\ op = "__init__"
    /\ arg = NoArg
    /\ raised = "none"
    /\ result = NoValue
    /\ yielded = <<>>
    /\ prevRoot = EmptyNode
    /\ prevLen = 0

Called(name, a) ==
    /\ op' = name
    /\ arg' = a
    /\ prevRoot' = _root
    /\ prevLen' = _len
    /\ UNCHANGED <<_sort_key>>

Returns(v) == raised' = "none" /\ result' = v /\ yielded' = <<>>

Raises(e) == raised' = e /\ result' = NoValue /\ yielded' = <<>>

\* (insertNoCount: insert without `self._len += 1`.)
insertNoCount(value) ==
    /\ Len(inserted) < MaxLen
    /\ Called("insert", value)
    /\ LET sort_key == KeyOf(_sort_key, value)
       IN  \E same \in IsSame(_sort_key, sort_key, value) :
               _root' = InsertWalk(_root, value, sort_key, same)
    /\ _len' = _len
    /\ inserted' = Append(inserted, value)
    /\ Returns(NoValue)

insert(value) ==
    /\ _len < MaxLen
    /\ Called("insert", value)
    /\ LET sort_key == KeyOf(_sort_key, value)
       IN  \E same \in IsSame(_sort_key, sort_key, value) :
               _root' = InsertWalk(_root, value, sort_key, same)
    /\ _len' = _len + 1
    /\ inserted' = Append(inserted, value)
    /\ Returns(NoValue)

minimum ==
    /\ Called("minimum", NoArg)
    /\ IF _root = EmptyNode THEN Raises("IndexError")
       ELSE Returns(At(ExtremeWalk(_root, _LEFT), _VALUE))
    /\ UNCHANGED <<_root, _len, inserted>>

maximum ==
    /\ Called("maximum", NoArg)
    /\ IF _root = EmptyNode THEN Raises("IndexError")
       ELSE Returns(At(ExtremeWalk(_root, _RIGHT), _VALUE))
    /\ UNCHANGED <<_root, _len, inserted>>

find(sort_key) ==
    /\ Called("find", sort_key)
    /\ LET node == FindWalk(_root, sort_key)
       IN  IF node = EmptyNode THEN Raises("KeyError")
           ELSE Returns(At(node, _VALUE))
    /\ UNCHANGED <<_root, _len, inserted>>

\* self._pop_node is looked up before the argument of the call is evaluated,
\* and the class binds no such attribute.
pop_min ==
    /\ Called("pop_min", NoArg)
    /\ "_pop_node" \notin ClassAttrs
    /\ Raises("AttributeError")
    /\ UNCHANGED <<_root, _len, inserted>>

pop_max ==
    /\ Called("pop_max", NoArg)
    /\ "_pop_node" \notin ClassAttrs
    /\ Raises("AttributeError")
    /\ UNCHANGED <<_root, _len, inserted>>

\* (popCountsFirst: the count decremented before the call is made.)
popCountsFirst(sort_key) ==
    /\ Called("pop", sort_key)
    /\ "_pop_node" \notin ClassAttrs
    /\ Raises("AttributeError")
    /\ _len' = _len - 1
    /\ UNCHANGED <<_root, inserted>>

pop(sort_key) ==
    /\ Called("pop", sort_key)
    /\ "_pop_node" \notin ClassAttrs
    /\ Raises("AttributeError")
    /\ UNCHANGED <<_root, _len, inserted>>

values(reverse) ==
    /\ Called("values", IF reverse THEN 1 ELSE 0)
    /\ raised' = "none"
    /\ result' = NoValue
    /\ yielded' = valuesOf(_root, reverse)
    /\ UNCHANGED <<_root, _len, inserted>>

__len__ ==
    /\ Called("__len__", NoArg)
    /\ Returns(_len)
    /\ UNCHANGED <<_root, _len, inserted>>

Next ==
    \/ \E value \in Values : insert(value)
    \/ minimum
    \/ maximum
    \/ \E sort_key \in Keys : find(sort_key)
    \/ pop_min
    \/ pop_max
    \/ \E sort_key \in Keys : pop(sort_key)
    \/ \E reverse \in BOOLEAN : values(reverse)
    \/ __len__

Spec == Init /\ [][Next]_vars

\* ------------------------------------------------- vocabulary of the claims
LeftOf(node) == At(node, _LEFT)
RightOf(node) == At(node, _RIGHT)

\* The sort keys stored in the subtree under node.
RECURSIVE SubtreeKeys(_)
SubtreeKeys(node) ==
    IF node = EmptyNode THEN {}
    ELSE {At(node, _SORT_KEY)} \cup SubtreeKeys(LeftOf(node))
                               \cup SubtreeKeys(RightOf(node))

\* The number of non-empty nodes reachable from node.
RECURSIVE Size(_)
Size(node) ==
    IF node = EmptyNode THEN 0
    ELSE 1 + Size(LeftOf(node)) + Size(RightOf(node))

\* The bag of the values stored in the subtree under node.
RECURSIVE StoredValues(_)
StoredValues(node) ==
    IF node = EmptyNode THEN EmptyBag
    ELSE SetToBag({At(node, _VALUE)}) (+) StoredValues(LeftOf(node))
                                      (+) StoredValues(RightOf(node))

\* The bag of the elements of a sequence.
RECURSIVE SeqToBag(_)
SeqToBag(seq) ==
    IF seq = <<>> THEN EmptyBag
    ELSE SetToBag({Head(seq)}) (+) SeqToBag(Tail(seq))

\* The search-tree ordering at every node of the subtree under node.
RECURSIVE Ordered(_)
Ordered(node) ==
    \/ node = EmptyNode
    \/ /\ \A k \in SubtreeKeys(LeftOf(node)) : k < At(node, _SORT_KEY)
       /\ \A k \in SubtreeKeys(RightOf(node)) : k >= At(node, _SORT_KEY)
       /\ Ordered(LeftOf(node))
       /\ Ordered(RightOf(node))

\* The sort key of a value of this tree.
SortKey(value) == KeyOf(_sort_key, value)

NonDecreasing(seq) ==
    \A i \in 1..(Len(seq) - 1) : SortKey(seq[i]) <= SortKey(seq[i + 1])

NonIncreasing(seq) ==
    \A i \in 1..(Len(seq) - 1) : SortKey(seq[i]) >= SortKey(seq[i + 1])

Reverse(seq) == [i \in 1..Len(seq) |-> seq[Len(seq) + 1 - i]]

\* seq with value put after every element whose key is <= value's key (seq is
\* in non-decreasing key order).
PutAfterLE(seq, value) ==
    LET n == Cardinality({i \in 1..Len(seq) : SortKey(seq[i]) <= SortKey(value)})
    IN  SubSeq(seq, 1, n) \o <<value>> \o SubSeq(seq, n + 1, Len(seq))

\* The stable sort of seq by sort key.
RECURSIVE StableSort(_)
StableSort(seq) ==
    IF seq = <<>> THEN <<>>
    ELSE PutAfterLE(StableSort(SubSeq(seq, 1, Len(seq) - 1)), seq[Len(seq)])

\* Every node of old is a node of new, at the same place and with the same
\* contents.
RECURSIVE Preserved(_, _)
Preserved(old, new) ==
    \/ old = EmptyNode
    \/ /\ new # EmptyNode
       /\ Len(new) = Len(old)
       /\ At(new, _VALUE) = At(old, _VALUE)
       /\ At(new, _SORT_KEY) = At(old, _SORT_KEY)
       /\ Preserved(LeftOf(old), LeftOf(new))
       /\ Preserved(RightOf(old), RightOf(new))

\* The earliest-inserted value with the given sort key.
EarliestWith(sort_key) ==
    LET I == {i \in 1..Len(inserted) : SortKey(inserted[i]) = sort_key}
    IN  inserted[CHOOSE i \in I : \A j \in I : i <= j]

\* ------------------------------------------------------------------ claims

\* C1: in every state reached by any sequence of public operations, every
\* sort key in the left subtree of a node is strictly less than the node's
\* key and every sort key in its right subtree is greater than or equal to it.
C1_OrderingInvariant == Ordered(_root)

\* C1 witness: after a removal call, a tree whose root has both children and
\* an equal key in its right subtree.
C1_Witness ==
    /\ op \in {"pop", "pop_min", "pop_max"}
    /\ _root # EmptyNode
    /\ LeftOf(_root) # EmptyNode
    /\ At(_root, _SORT_KEY) \in SubtreeKeys(RightOf(_root))
    /\ Size(_root) = MaxLen

\* C2: the stored count equals the number of non-empty nodes reachable from
\* the root, equals the number of insert calls made, and is what len()
\* returns.
C2_CountInvariant ==
    /\ _len = Size(_root)
    /\ _len = Len(inserted)
    /\ op = "__len__" => raised = "none" /\ result = Size(_root)

\* C2 witness: len() returns 3 after three inserts of which two are of the
\* same value.
C2_Witness ==
    /\ op = "__len__"
    /\ result = 3
    /\ Len(inserted) = 3
    /\ inserted[1] = inserted[3]

\* C3: pop(key) on a tree holding a value with that key returns a value with
\* that key, removes exactly that one value, decrements the count by one and
\* leaves the tree ordered.
C3_PopRemovesOne ==
    (op = "pop" /\ arg \in SubtreeKeys(prevRoot)) =>
        /\ raised = "none"
        /\ SortKey(result) = arg
        /\ StoredValues(_root) (+) SetToBag({result}) = StoredValues(prevRoot)
        /\ _len = prevLen - 1
        /\ Ordered(_root)

\* C4: each pop_min() on a non-empty tree returns the first value of the
\* ascending traversal, leaves the rest of that traversal and decrements the
\* count by one, so that draining yields the ascending order; pop_max()
\* likewise with the descending traversal.
C4_DrainByExtremes ==
    /\ (op = "pop_min" /\ prevRoot # EmptyNode) =>
           /\ raised = "none"
           /\ result = Head(valuesOf(prevRoot, FALSE))
           /\ valuesOf(_root, FALSE) = Tail(valuesOf(prevRoot, FALSE))
           /\ _len = prevLen - 1
    /\ (op = "pop_max" /\ prevRoot # EmptyNode) =>
           /\ raised = "none"
           /\ result = Head(valuesOf(prevRoot, TRUE))
           /\ valuesOf(_root, TRUE) = Tail(valuesOf(prevRoot, TRUE))
           /\ _len = prevLen - 1

\* C5: on an empty tree minimum(), maximum(), pop_min() and pop_max() raise
\* the empty-collection error (IndexError) and find(k) raises the
\* key-not-found error (KeyError), and nothing else.
C5_EmptyTreeErrors ==
    prevRoot = EmptyNode =>
        /\ op \in {"minimum", "maximum", "pop_min", "pop_max"} =>
               raised = "IndexError"
        /\ op = "find" => raised = "KeyError"

\* C6: a call of minimum, maximum, find, pop_min, pop_max or pop that ends by
\* raising leaves the nodes, values, keys and count as they were before the
\* call, with the ordering and count invariants still true.
C6_NoPartialMutation ==
    raised # "none" =>
        /\ op \in {"minimum", "maximum", "find", "pop_min", "pop_max", "pop"}
        /\ _root = prevRoot
        /\ _len = prevLen
        /\ Ordered(_root)
        /\ _len = Size(_root)

\* C6 witness: pop of a key that is not stored has raised on a tree of three
\* values.
C6_Witness ==
    /\ op = "pop"
    /\ raised # "none"
    /\ arg \notin SubtreeKeys(prevRoot)
    /\ Size(prevRoot) = 3
    /\ _root = prevRoot

\* C7: values(reverse=False) run dry yields values in non-decreasing key
\* order, values(reverse=True) in non-increasing key order, and each yields
\* exactly len() values, the value of each stored node once.
C7_SortedTraversal ==
    op = "values" =>
        /\ arg = 0 => NonDecreasing(yielded)
        /\ arg = 1 => NonIncreasing(yielded)
        /\ Len(yielded) = _len
        /\ SeqToBag(yielded) = StoredValues(_root)

\* C7 witness: a reverse traversal that yielded the greatest number of values
\* the model allows, of more than one key, and with one key twice.
C7_Witness ==
    /\ op = "values"
    /\ arg = 1
    /\ Len(yielded) = MaxLen
    /\ SortKey(yielded[1]) > SortKey(yielded[Len(yielded)])
    /\ SortKey(yielded[1]) = SortKey(yielded[2])

\* C8: on a non-empty tree minimum() returns the first value of the ascending
\* traversal and maximum() the last one.
C8_ExtremesMatchTraversal ==
    /\ (op = "minimum" /\ _root # EmptyNode) =>
           raised = "none" /\ result = Head(valuesOf(_root, FALSE))
    /\ (op = "maximum" /\ _root # EmptyNode) =>
           /\ raised = "none"
           /\ result = valuesOf(_root, FALSE)[Size(_root)]

\* C8 witness: maximum() has returned on a tree in which two different values
\* share the maximum key and the rightmost node is not a child of the root.
C8_Witness ==
    /\ op = "maximum"
    /\ raised = "none"
    /\ Size(_root) >= 3
    /\ LET asc == valuesOf(_root, FALSE)
       IN  /\ SortKey(asc[Len(asc)]) = SortKey(asc[Len(asc) - 1])
           /\ asc[Len(asc)] # asc[Len(asc) - 1]
    /\ RightOf(_root) # EmptyNode
    /\ RightOf(RightOf(_root)) # EmptyNode

\* C9: find(k) returns a stored value whose key is k when some stored value
\* has key k, and raises the key-not-found error (KeyError) when none has.
C9_FindSoundComplete ==
    op = "find" =>
        IF \E v \in BagToSet(StoredValues(_root)) : SortKey(v) = arg
        THEN /\ raised = "none"
             /\ BagIn(result, StoredValues(_root))
             /\ SortKey(result) = arg
        ELSE raised = "KeyError"

\* C9 witness: find has returned a value stored below the root, in a tree that
\* holds two values with the key asked for.
C9_Witness ==
    /\ op = "find"
    /\ raised = "none"
    /\ At(_root, _SORT_KEY) # arg
    /\ Cardinality({i \in 1..Len(inserted) : SortKey(inserted[i]) = arg}) >= 2

\* C10: an insert puts the new value, in ascending traversal, after every
\* stored value with key <= its key and before every one with a greater key,
\* and changes no existing node; so the ascending traversal is the stable
\* sort of the inserted values, the descending traversal its reverse, and
\* find(k) returns the earliest-inserted value with key k.
C10_StableInsertion ==
    /\ op = "insert" =>
           /\ valuesOf(_root, FALSE)
                  = PutAfterLE(valuesOf(prevRoot, FALSE), arg)
           /\ Preserved(prevRoot, _root)
    /\ valuesOf(_root, FALSE) = StableSort(inserted)
    /\ valuesOf(_root, TRUE) = Reverse(StableSort(inserted))
    /\ (op = "find" /\ raised = "none") => result = EarliestWith(arg)

\* C10 witness: the last insert added a second, different value with a key
\* already stored, and values with a greater key are stored too.
C10_Witness ==
    /\ op = "insert"
    /\ \E i \in 1..(Len(inserted) - 1) :
           /\ SortKey(inserted[i]) = SortKey(arg)
           /\ inserted[i] # arg
    /\ \E i \in 1..(Len(inserted) - 1) : SortKey(inserted[i]) > SortKey(arg)
    /\ \E i \in 1..(Len(inserted) - 1) : SortKey(inserted[i]) < SortKey(arg)

====
